---------------------------- MODULE Spec2Model ----------------------------
(***************************************************************************)
(* A model of campies (src/campies.py): the `find` command, which picks    *)
(* the BootCamp packages of Apple's software catalog that support a Mac    *)
(* model, the `build` command, which repackages a downloaded BootCamp      *)
(* package as a ZIP archive, and the text transformation that reads the    *)
(* supported models out of a distribution document's script.               *)
(*                                                                         *)
(* Strings are sequences of one-character strings, so that the string      *)
(* operations of the code (replace, strip, split, endswith, dirname) are   *)
(* computed character by character as Python computes them.                *)
(***************************************************************************)
EXTENDS Integers, Sequences, FiniteSets, TLC

VARIABLES
    \* get_supported_models, lines 94-118, applied to one script
    m_pc,          \* "idle" | "start" | "done"
    m_ids,         \* the identifiers the script's models line was written from
    m_form,        \* how the models line was written
    m_pre,         \* what precedes the models line in the script
    m_script,      \* the script's text
    m_result       \* what get_supported_models returned or raised

modelsVars == <<m_pc, m_ids, m_form, m_pre, m_script, m_result>>

VARIABLES
    \* find, lines 121-198
    f_pc,              \* where find is
    f_model_arg,       \* the --model argument, or NoneArg
    f_url_arg,         \* the --catalog_url argument, or NoneArg
    model,             \* the resolved Mac model
    catalog,           \* the catalog's products in iteration order, each the
                       \* list of its packages' URLs
    f_k,               \* the number of the next package to examine, in
                       \* iteration order
    supported_models,  \* what the last get_supported_models gave
    package_urls,      \* the collected URLs
    f_from,            \* history: the package each collected URL came from
    f_fetched,         \* history: the distribution documents fetched
    f_out,             \* the lines printed
    f_outcome,         \* "running" | "returned" | "exit" | "exception" | "interrupted"
    f_exit             \* the process's exit status once it ended

findVars == <<f_pc, f_model_arg, f_url_arg, model, catalog, f_k,
              supported_models, package_urls, f_from, f_fetched, f_out,
              f_outcome, f_exit>>

VARIABLES
    \* build, lines 201-298
    b_pc,              \* the step build is at
    bootcamp_package,  \* the package path given
    b_cwd,             \* the working directory of the process
    b_is_file,         \* whether the package path names a regular file
    b_mounted0,        \* whether /Volumes/Boot Camp existed at the start
    b_mounted,         \* whether /Volumes/Boot Camp exists
    b_tmpdir,          \* whether the temporary directory exists
    bootcamp_version,  \* the text of MsiInfo/ProductVersion
    bootcamp_archive,  \* the archive's base name
    b_archive_file,    \* the file make_archive wrote, or NoneArg
    b_steps,           \* history: the steps executed
    b_failed_at,       \* history: the step that raised, or "none"
    b_out,             \* the lines printed
    b_outcome,         \* "running" | "returned" | "exit" | "exception" | "interrupted"
    b_exit             \* the process's exit status once it ended

buildVars == <<b_pc, bootcamp_package, b_cwd, b_is_file, b_mounted0, b_mounted,
               b_tmpdir, bootcamp_version, bootcamp_archive, b_archive_file,
               b_steps, b_failed_at, b_out, b_outcome, b_exit>>

vars == <<modelsVars, findVars, buildVars>>

---------------------------------------------------------------------------
(* Python's string operations, on sequences of characters. *)

WHITESPACE == {" ", "\t", "\n", "\r"}

startswith(s, prefix) ==
    /\ Len(prefix) <= Len(s)
    /\ SubSeq(s, 1, Len(prefix)) = prefix

\* str.endswith(suffix)
endswith(s, suffix) ==
    /\ Len(suffix) <= Len(s)
    /\ SubSeq(s, Len(s) - Len(suffix) + 1, Len(s)) = suffix

\* `sub in s` for two strings
contains(s, sub) ==
    \E i \in 1..(Len(s) - Len(sub) + 1) : SubSeq(s, i, i + Len(sub) - 1) = sub

\* the concatenation of pieces[lo] ... pieces[hi]
RECURSIVE concat(_, _, _)
concat(pieces, lo, hi) ==
    IF lo > hi THEN <<>>
    ELSE IF lo = hi THEN pieces[lo]
    ELSE LET mid == (lo + hi) \div 2
         IN  concat(pieces, lo, mid) \o concat(pieces, mid + 1, hi)

\* str.replace(old, new): every occurrence of old becomes new. The texts
\* replaced in get_supported_models ('var models =', "'", ',]', ';') cannot
\* overlap themselves, so that every occurrence is one Python replaces.
replace(s, old, new) ==
    LET n == Len(old)
        starts == {i \in 1..(Len(s) - n + 1) : SubSeq(s, i, i + n - 1) = old}
        pieces == [k \in 1..Len(s) |->
                     IF k \in starts THEN new
                     ELSE IF \E i \in starts : i < k /\ k < i + n THEN <<>>
                     ELSE <<s[k]>>]
    IN  concat(pieces, 1, Len(s))

\* str.lstrip()
lstrip(s) ==
    LET kept == {i \in 1..Len(s) : s[i] \notin WHITESPACE} IN
    IF kept = {} THEN <<>>
    ELSE SubSeq(s, CHOOSE i \in kept : \A j \in kept : i <= j, Len(s))

\* str.rstrip()
rstrip(s) ==
    LET kept == {i \in 1..Len(s) : s[i] \notin WHITESPACE} IN
    IF kept = {} THEN <<>>
    ELSE SubSeq(s, 1, CHOOSE i \in kept : \A j \in kept : j <= i)

\* str.strip()
strip(s) == rstrip(lstrip(s))

\* str.split(sep) for a one-character separator: the pieces between the
\* separators, empty pieces kept
split(s, sep) ==
    LET seps == {i \in 1..Len(s) : s[i] = sep}
        \* the separators and the two ends, in order
        cut(n) == IF n = 0 THEN 0
                  ELSE IF n = Cardinality(seps) + 1 THEN Len(s) + 1
                  ELSE CHOOSE i \in seps : Cardinality({j \in seps : j < i}) = n - 1
    IN  [n \in 1..(Cardinality(seps) + 1) |->
            SubSeq(s, cut(n - 1) + 1, cut(n) - 1)]

\* a Python list as a set, for `x in list`
Elems(seq) == {seq[i] : i \in 1..Len(seq)}

---------------------------------------------------------------------------
(* json.loads, for the texts the transformation can hand it here: an       *)
(* array of strings without escapes, with optional whitespace, is the      *)
(* list of those strings; a text that does not start with a JSON value     *)
(* (after whitespace), or that has text left after the array, or a comma   *)
(* before the closing bracket, or an unclosed string, raises ValueError.   *)

Returned(v) == [exc |-> "none", val |-> v]
Raised(e)   == [exc |-> e, val |-> <<>>]

\* the position after the whitespace that starts at i
skip_ws(s, i) ==
    LET stops == {j \in i..Len(s) : s[j] \notin WHITESPACE} IN
    IF stops = {} THEN Len(s) + 1
    ELSE CHOOSE j \in stops : \A l \in stops : j <= l

\* the position of the quote that closes the string opened before i, or 0
\* (a control character or a backslash comes first, or nothing closes it)
close_quote(s, i) ==
    LET stops == {j \in i..Len(s) : s[j] \in {"\"", "\n", "\r", "\t", "\\"}} IN
    IF stops = {} THEN 0
    ELSE LET j == CHOOSE k \in stops : \A l \in stops : k <= l
         IN  IF s[j] = "\"" THEN j ELSE 0

\* the array's elements from position i on, a value being due at i;
\* `first` says that no element was read yet, so that "]" may close it
RECURSIVE json_array(_, _, _, _)
json_array(s, i, acc, first) ==
    LET p == skip_ws(s, i) IN
    IF p > Len(s) THEN Raised("ValueError")
    ELSE IF s[p] = "]" /\ first
    THEN IF skip_ws(s, p + 1) > Len(s)
         THEN Returned(acc) ELSE Raised("ValueError")
    ELSE IF s[p] # "\"" THEN Raised("ValueError")
    ELSE LET q == close_quote(s, p + 1) IN
         IF q = 0 THEN Raised("ValueError")
         ELSE LET item == SubSeq(s, p + 1, q - 1)
                  r    == skip_ws(s, q + 1)
              IN  IF r > Len(s) THEN Raised("ValueError")
                  ELSE IF s[r] = ","
                  THEN json_array(s, r + 1, Append(acc, item), FALSE)
                  ELSE IF s[r] = "]"
                  THEN IF skip_ws(s, r + 1) > Len(s)
                       THEN Returned(Append(acc, item))
                       ELSE Raised("ValueError")
                  ELSE Raised("ValueError")

json_loads(s) ==
    LET p == skip_ws(s, 1) IN
    IF p > Len(s) \/ s[p] # "[" THEN Raised("ValueError")
    ELSE json_array(s, p + 1, <<>>, TRUE)

---------------------------------------------------------------------------
(* get_supported_models, lines 94-118: the models of a script. *)

VAR_MODELS        == <<"v","a","r"," ","m","o","d","e","l","s">>
VAR_MODELS_ASSIGN == <<"v","a","r"," ","m","o","d","e","l","s"," ","=">>

NoLine == <<"<None>">>

\* lines 96-100: the first line that contains 'var models', or None
RECURSIVE first_models_line(_)
first_models_line(lines) ==
    IF lines = <<>> THEN NoLine
    ELSE IF contains(Head(lines), VAR_MODELS) THEN Head(lines)
    ELSE first_models_line(Tail(lines))

\* the comma before the closing bracket stays
keep_trailing_comma(s) == s

\* line 113: the comma before the closing bracket goes
drop_trailing_comma(s) == replace(s, <<",", "]">>, <<"]">>)

\* line 112: single quotes become double quotes
requote(s) == replace(s, <<"'">>, <<"\"">>)

\* lines 110-115: the JavaScript declaration as JSON
models_json(models_js) ==
    strip(replace(drop_trailing_comma(requote(
        replace(models_js, VAR_MODELS_ASSIGN, <<>>))), <<";">>, <<>>))

\* a script without a models line is handed to json.loads all the same
script_models_strict(script) ==
    LET models_js == first_models_line(split(script, "\n")) IN
    json_loads(models_json(models_js))

\* lines 94-118
script_models(script) ==
    LET models_js == first_models_line(split(script, "\n")) IN
    IF models_js = NoLine THEN Returned(<<>>)
    ELSE json_loads(models_json(models_js))

---------------------------------------------------------------------------
(* Scripts to read the models from. *)

MaxModels == 2

MacBookPro9_1 == <<"M","a","c","B","o","o","k","P","r","o","9",",","1">>
MacBookPro9_2 == <<"M","a","c","B","o","o","k","P","r","o","9",",","2">>
iMac13        == <<"i","M","a","c","1","3">>

Identifiers == {MacBookPro9_1, MacBookPro9_2, iMac13}

IdLists == UNION {[1..n -> Identifiers] : n \in 0..MaxModels}

Forms == {"canonical", "indented", "no_trailing_comma", "double_quoted",
          "no_space", "two_statements", "absent"}

Pres == {"nothing", "other_lines", "earlier_mention"}

\* 'm1','m2',...,'mn',  with quote character q
RECURSIVE quoted_items(_, _)
quoted_items(ids, q) ==
    IF ids = <<>> THEN <<>>
    ELSE <<q>> \o Head(ids) \o <<q, ",">> \o quoted_items(Tail(ids), q)

\* var models = ['m1','m2',...,'mn',];
canonical_line(ids) ==
    VAR_MODELS_ASSIGN \o <<" ", "[">> \o quoted_items(ids, "'") \o <<"]", ";">>

models_line(ids, form) ==
    CASE form = "canonical" -> canonical_line(ids)
      [] form = "indented"  -> <<" ", " ", "\t">> \o canonical_line(ids) \o <<"\r">>
      [] form = "no_trailing_comma" ->
            LET items == quoted_items(ids, "'") IN
            VAR_MODELS_ASSIGN \o <<" ", "[">>
                \o (IF items = <<>> THEN <<>> ELSE SubSeq(items, 1, Len(items) - 1))
                \o <<"]", ";">>
      [] form = "double_quoted" ->
            VAR_MODELS_ASSIGN \o <<" ", "[">> \o quoted_items(ids, "\"") \o <<"]", ";">>
      [] form = "no_space" ->
            <<"v","a","r"," ","m","o","d","e","l","s","=","[">>
                \o quoted_items(ids, "'") \o <<"]", ";">>
      [] form = "two_statements" ->
            canonical_line(ids) \o <<" ">> \o canonical_line(ids)
      [] form = "absent" -> <<"v","a","r"," ","x"," ","=", " ", "1", ";">>

script_text(ids, form, pre) ==
    CASE pre = "nothing" -> models_line(ids, form)
      [] pre = "other_lines" ->
            <<"/","/"," ","h","e","a","d","e","r","\n","\n">>
                \o models_line(ids, form) \o <<"\n", "}", "\n">>
      [] pre = "earlier_mention" ->
            <<"/","/"," ">> \o VAR_MODELS \o <<"\n">> \o models_line(ids, form)

IdleFind ==
    /\ f_pc = "idle"
    /\ f_model_arg = <<>> /\ f_url_arg = <<>> /\ model = <<>>
    /\ catalog = <<>> /\ f_k = 1
    /\ supported_models = Returned(<<>>)
    /\ package_urls = <<>> /\ f_from = <<>> /\ f_fetched = <<>>
    /\ f_out = <<>> /\ f_outcome = "running" /\ f_exit = "none"

IdleBuild ==
    /\ b_pc = "idle"
    /\ bootcamp_package = <<>> /\ b_cwd = <<>>
    /\ b_is_file = FALSE /\ b_mounted0 = FALSE /\ b_mounted = FALSE
    /\ b_tmpdir = FALSE
    /\ bootcamp_version = <<>> /\ bootcamp_archive = <<>>
    /\ b_archive_file = <<>>
    /\ b_steps = <<>> /\ b_failed_at = "none"
    /\ b_out = <<>> /\ b_outcome = "running" /\ b_exit = "none"

IdleModels ==
    /\ m_pc = "idle"
    /\ m_ids = <<>> /\ m_form = "absent" /\ m_pre = "nothing"
    /\ m_script = <<>> /\ m_result = Raised("pending")

InitModels ==
    /\ IdleFind /\ IdleBuild
    /\ m_pc = "start"
    /\ m_ids \in IdLists
    /\ m_form \in Forms
    /\ m_pre \in Pres
    /\ m_script = script_text(m_ids, m_form, m_pre)
    /\ m_result = Raised("pending")

\* the call of lines 94-118 on the script
ExtractModels ==
    /\ m_pc = "start"
    /\ m_result' = script_models(m_script)
    /\ m_pc' = "done"
    /\ UNCHANGED <<m_ids, m_form, m_pre, m_script>>
    /\ UNCHANGED <<findVars, buildVars>>

NextModels == ExtractModels

SpecModels == InitModels /\ [][NextModels]_vars

---------------------------------------------------------------------------
(* find, lines 121-198. *)

MaxProducts == 2
MaxCatalogPackages == 2

NoneArg == <<"<None>">>

BOOTCAMP_SUFFIX == <<"B","o","o","t","C","a","m","p","E","S","D",".","p","k","g">>

\* package URLs a catalog may hold
URL_A     == <<"a","/","B","o","o","t","C","a","m","p","E","S","D",".","p","k","g">>
URL_BARE  == <<"B","o","o","t","C","a","m","p","E","S","D",".","p","k","g">>
URL_PKG2  == <<"a","/","B","o","o","t","C","a","m","p","E","S","D",".","p","k","g","2">>
URL_SHORT == <<"D",".","p","k","g">>

PackageUrls == {URL_A, URL_BARE, URL_PKG2, URL_SHORT}

CUSTOM_CATALOG_URL == <<"h","t","t","p",":","/","/","c">>

\* the Mac models a run may look for; the machine's own is the first
HardwareModel == MacBookPro9_1
MacModels == {MacBookPro9_1, MacBookPro9_2}

\* the responses a distribution URL may give: no response (urlopen or the
\* XML parser raises), or a document, here the texts of its script elements
OTHER_SCRIPT == <<"f","u","n","c","t","i","o","n"," ","f","(",")"," ","{","}">>

DocNames == {"unreachable", "one_script", "no_models_line", "both_models",
             "only_9_2"}

Document(name) ==
    CASE name = "one_script"     -> <<OTHER_SCRIPT>>
      [] name = "no_models_line" -> <<OTHER_SCRIPT, script_text(<<>>, "absent", "other_lines")>>
      [] name = "both_models"    ->
            <<OTHER_SCRIPT,
              script_text(<<MacBookPro9_1, MacBookPro9_2>>, "canonical", "other_lines")>>
      [] name = "only_9_2"       ->
            <<OTHER_SCRIPT, script_text(<<MacBookPro9_2>>, "canonical", "nothing")>>
      [] OTHER                   -> <<>>

\* get_supported_models, lines 83-118, on the response of the distribution URL
get_supported_models(name) ==
    IF name = "unreachable" THEN Raised("URLError")
    ELSE LET scripts == Document(name) IN
         IF Len(scripts) < 2 THEN Raised("IndexError")
         ELSE script_models(scripts[2])

\* get_supported_models of each response, computed once
SupportedModels == [name \in DocNames |-> get_supported_models(name)]

\* the catalogs: at most MaxProducts products holding at most
\* MaxCatalogPackages packages together
PackageLists(n) == UNION {[1..m -> PackageUrls] : m \in 0..n}

RECURSIVE CatalogsWithin(_, _)
CatalogsWithin(products, packages) ==
    IF products = 0 THEN {<<>>}
    ELSE {<<>>} \cup UNION {
            {<<first>> \o rest :
                rest \in CatalogsWithin(products - 1, packages - Len(first))} :
            first \in PackageLists(packages)}

Catalogs == CatalogsWithin(MaxProducts, MaxCatalogPackages)

\* lines 156-157: the packages in the order the two loops visit them, each
\* as <<product, package>>
RECURSIVE Visits(_, _)
Visits(c, i) ==
    IF i > Len(c) THEN <<>>
    ELSE [j \in 1..Len(c[i]) |-> <<i, j>>] \o Visits(c, i + 1)

PackageUrlAt(c, v) == c[v[1]][v[2]]

\* the suffix is looked for anywhere in the URL
is_bootcamp_anywhere(package_url) == contains(package_url, BOOTCAMP_SUFFIX)

\* line 161: a BootCamp package
is_bootcamp(package_url) == endswith(package_url, BOOTCAMP_SUFFIX)

\* line 168: `model in supported_models`
is_supported(m, models) == m \in Elems(models)

\* lines 166-167: the distribution document fetched for the package of
\* product i
distribution_of(i) == i

Msg(kind, text) == [kind |-> kind, text |-> text]

\* one URL or more is reported as the single match
report_first_only(urls) ==
    IF urls # <<>>
    THEN [msgs |-> <<Msg("found", urls[1])>>, outcome |-> "returned"]
    ELSE [msgs |-> <<Msg("none", <<>>)>>, outcome |-> "exit"]

\* lines 171-198: what find prints for the collected URLs, and how it ends
report(urls) ==
    IF Len(urls) = 1
    THEN [msgs |-> <<Msg("found", urls[1])>>, outcome |-> "returned"]
    ELSE IF urls # <<>>
    THEN [msgs |-> <<Msg("ambiguous", <<>>)>>
                       \o [n \in 1..Len(urls) |-> Msg("item", urls[n])],
          outcome |-> "returned"]
    ELSE [msgs |-> <<Msg("none", <<>>)>>, outcome |-> "exit"]

\* lines 339-342 and the interpreter: how the process ends
exit_status(outcome) ==
    CASE outcome = "returned"    -> "0"
      [] outcome = "interrupted" -> "0"
      [] outcome = "exit"        -> "1"
      [] outcome = "exception"   -> "1"

InitFind ==
    /\ IdleModels /\ IdleBuild
    /\ f_pc = "model"
    /\ f_model_arg \in {NoneArg} \cup MacModels
    /\ f_url_arg \in {NoneArg, CUSTOM_CATALOG_URL}
    /\ model = <<>> /\ catalog = <<>> /\ f_k = 1
    /\ supported_models = Returned(<<>>)
    /\ package_urls = <<>> /\ f_from = <<>> /\ f_fetched = <<>>
    /\ f_out = <<>> /\ f_outcome = "running" /\ f_exit = "none"

\* the process ends
FindEnds(outcome) ==
    /\ f_pc' = "done"
    /\ f_outcome' = outcome
    /\ f_exit' = exit_status(outcome)

\* lines 125-131: no model was given, get_model reads the machine's
FindDetectModel ==
    /\ f_pc = "model" /\ f_model_arg = NoneArg
    /\ \/ /\ model' = HardwareModel
          /\ f_out' = Append(f_out, Msg("detected", HardwareModel))
          /\ f_pc' = "catalog_url"
          /\ UNCHANGED <<f_outcome, f_exit>>
       \/ /\ FindEnds("exception")
          /\ UNCHANGED <<model, f_out>>
    /\ UNCHANGED <<f_model_arg, f_url_arg, catalog, f_k, supported_models,
                   package_urls, f_from, f_fetched>>
    /\ UNCHANGED <<modelsVars, buildVars>>

\* lines 132-137: the model given is used
FindUseModel ==
    /\ f_pc = "model" /\ f_model_arg # NoneArg
    /\ model' = f_model_arg
    /\ f_out' = Append(f_out, Msg("provided", f_model_arg))
    /\ f_pc' = "catalog_url"
    /\ UNCHANGED <<f_model_arg, f_url_arg, catalog, f_k, supported_models,
                   package_urls, f_from, f_fetched, f_outcome, f_exit>>
    /\ UNCHANGED <<modelsVars, buildVars>>

\* lines 139-152: the catalog URL is resolved and the catalog fetched
FindGetCatalog ==
    /\ f_pc = "catalog_url"
    /\ LET said == (IF f_url_arg = NoneArg THEN <<>>
                    ELSE <<Msg("custom_catalog", f_url_arg)>>)
                       \o <<Msg("obtaining", <<>>)>>
       IN  /\ f_out' = f_out \o said
           /\ \/ \E c \in Catalogs :
                    /\ catalog' = c
                    /\ f_pc' = "iterate"
                    /\ UNCHANGED <<f_outcome, f_exit>>
              \/ /\ FindEnds("exception")
                 /\ UNCHANGED catalog
    /\ UNCHANGED <<f_model_arg, f_url_arg, model, f_k, supported_models,
                   package_urls, f_from, f_fetched>>
    /\ UNCHANGED <<modelsVars, buildVars>>

\* lines 157-162: a package that is not BootCamp is skipped
FindSkipPackage ==
    /\ f_pc = "iterate" /\ f_k <= Len(Visits(catalog, 1))
    /\ ~is_bootcamp(PackageUrlAt(catalog, Visits(catalog, 1)[f_k]))
    /\ f_k' = f_k + 1
    /\ UNCHANGED <<f_pc, f_model_arg, f_url_arg, model, catalog,
                   supported_models, package_urls, f_from, f_fetched, f_out,
                   f_outcome, f_exit>>
    /\ UNCHANGED <<modelsVars, buildVars>>

\* a URL is printed as soon as it is collected
FindExaminePackageReporting ==
    /\ f_pc = "iterate" /\ f_k <= Len(Visits(catalog, 1))
    /\ LET v   == Visits(catalog, 1)[f_k]
           url == PackageUrlAt(catalog, v)
       IN  /\ is_bootcamp(url)
           /\ \E response \in DocNames :
                LET got == SupportedModels[response] IN
                /\ f_fetched' = Append(f_fetched,
                        [visit |-> f_k, distribution |-> distribution_of(v[1]),
                         response |-> response])
                /\ supported_models' = got
                /\ IF got.exc # "none"
                   THEN /\ FindEnds("exception")
                        /\ UNCHANGED <<f_k, package_urls, f_from, f_out>>
                   ELSE /\ f_k' = f_k + 1
                        /\ IF is_supported(model, got.val)
                           THEN /\ package_urls' = Append(package_urls, url)
                                /\ f_from' = Append(f_from, f_k)
                                /\ f_out' = Append(f_out, Msg("item", url))
                           ELSE UNCHANGED <<package_urls, f_from, f_out>>
                        /\ UNCHANGED <<f_pc, f_outcome, f_exit>>
    /\ UNCHANGED <<f_model_arg, f_url_arg, model, catalog>>
    /\ UNCHANGED <<modelsVars, buildVars>>

\* lines 157-169: a BootCamp package: its product's distribution document
\* is fetched and the URL collected if the model is among its models
FindExaminePackage ==
    /\ f_pc = "iterate" /\ f_k <= Len(Visits(catalog, 1))
    /\ LET v   == Visits(catalog, 1)[f_k]
           url == PackageUrlAt(catalog, v)
       IN  /\ is_bootcamp(url)
           /\ \E response \in DocNames :
                LET got == SupportedModels[response] IN
                /\ f_fetched' = Append(f_fetched,
                        [visit |-> f_k, distribution |-> distribution_of(v[1]),
                         response |-> response])
                /\ supported_models' = got
                /\ IF got.exc # "none"
                   THEN /\ FindEnds("exception")
                        /\ UNCHANGED <<f_k, package_urls, f_from>>
                   ELSE /\ f_k' = f_k + 1
                        /\ IF is_supported(model, got.val)
                           THEN /\ package_urls' = Append(package_urls, url)
                                /\ f_from' = Append(f_from, f_k)
                           ELSE UNCHANGED <<package_urls, f_from>>
                        /\ UNCHANGED <<f_pc, f_outcome, f_exit>>
    /\ UNCHANGED <<f_model_arg, f_url_arg, model, catalog, f_out>>
    /\ UNCHANGED <<modelsVars, buildVars>>

\* lines 171-198: the loops are over, the result is reported
FindReport ==
    /\ f_pc = "iterate" /\ f_k > Len(Visits(catalog, 1))
    /\ LET r == report(package_urls)
       IN  /\ f_out' = f_out \o r.msgs
           /\ FindEnds(r.outcome)
    /\ UNCHANGED <<f_model_arg, f_url_arg, model, catalog, f_k,
                   supported_models, package_urls, f_from, f_fetched>>
    /\ UNCHANGED <<modelsVars, buildVars>>

\* lines 341-342: the user interrupts a blocking call (get_model, a fetch)
FindInterrupted ==
    /\ \/ f_pc = "model" /\ f_model_arg = NoneArg
       \/ f_pc = "catalog_url"
       \/ /\ f_pc = "iterate" /\ f_k <= Len(Visits(catalog, 1))
          /\ is_bootcamp(PackageUrlAt(catalog, Visits(catalog, 1)[f_k]))
    /\ f_out' = Append(f_out, Msg("cancelled", <<>>))
    /\ FindEnds("interrupted")
    /\ UNCHANGED <<f_model_arg, f_url_arg, model, catalog, f_k,
                   supported_models, package_urls, f_from, f_fetched>>
    /\ UNCHANGED <<modelsVars, buildVars>>

NextFind ==
    \/ FindDetectModel
    \/ FindUseModel
    \/ FindGetCatalog
    \/ FindSkipPackage
    \/ FindExaminePackage
    \/ FindReport
    \/ FindInterrupted

SpecFind == InitFind /\ [][NextFind]_vars

---------------------------------------------------------------------------
(* posixpath and shutil.make_archive, as build uses them. *)

\* str.rfind('/'): the last slash's position, 0 if there is none
last_slash(p) ==
    LET slashes == {i \in 1..Len(p) : p[i] = "/"} IN
    IF slashes = {} THEN 0
    ELSE CHOOSE i \in slashes : \A j \in slashes : j <= i

\* str.rstrip('/')
rstrip_slashes(p) ==
    LET kept == {i \in 1..Len(p) : p[i] # "/"} IN
    IF kept = {} THEN <<>>
    ELSE SubSeq(p, 1, CHOOSE i \in kept : \A j \in kept : j <= i)

\* os.path.dirname: the text up to the last slash, without its trailing
\* slashes unless it is slashes only; empty for a bare file name
dirname(p) ==
    LET head == SubSeq(p, 1, last_slash(p)) IN
    IF head # <<>> /\ (\E k \in 1..Len(head) : head[k] # "/")
    THEN rstrip_slashes(head) ELSE head

\* os.path.join(a, b)
join(a, b) ==
    IF startswith(b, <<"/">>) THEN b
    ELSE IF a = <<>> \/ a[Len(a)] = "/" THEN a \o b
    ELSE a \o <<"/">> \o b

\* normpath's loop over the components
RECURSIVE norm_comps(_, _, _)
norm_comps(comps, new_comps, initial_slashes) ==
    IF comps = <<>> THEN new_comps
    ELSE LET comp == Head(comps) IN
         IF comp \in {<<>>, <<".">>}
         THEN norm_comps(Tail(comps), new_comps, initial_slashes)
         ELSE IF \/ comp # <<".", ".">>
                 \/ (initial_slashes = 0 /\ new_comps = <<>>)
                 \/ (new_comps # <<>> /\ new_comps[Len(new_comps)] = <<".", ".">>)
         THEN norm_comps(Tail(comps), Append(new_comps, comp), initial_slashes)
         ELSE IF new_comps # <<>>
         THEN norm_comps(Tail(comps), SubSeq(new_comps, 1, Len(new_comps) - 1),
                         initial_slashes)
         ELSE norm_comps(Tail(comps), new_comps, initial_slashes)

\* '/'.join(comps)
RECURSIVE slash_join(_)
slash_join(comps) ==
    IF comps = <<>> THEN <<>>
    ELSE IF Len(comps) = 1 THEN comps[1]
    ELSE Head(comps) \o <<"/">> \o slash_join(Tail(comps))

\* os.path.normpath
normpath(path) ==
    IF path = <<>> THEN <<".">>
    ELSE LET initial_slashes ==
                 IF ~startswith(path, <<"/">>) THEN 0
                 ELSE IF startswith(path, <<"/", "/">>)
                         /\ ~startswith(path, <<"/", "/", "/">>)
                 THEN 2 ELSE 1
             joined == slash_join(norm_comps(split(path, "/"), <<>>, initial_slashes))
             out == [i \in 1..initial_slashes |-> "/"] \o joined
         IN  IF out = <<>> THEN <<".">> ELSE out

\* os.path.abspath in working directory cwd
abspath(cwd, path) ==
    IF startswith(path, <<"/">>) THEN normpath(path)
    ELSE normpath(join(cwd, path))

ZIP_EXT == <<".", "z", "i", "p">>

\* shutil.make_archive(base_name, 'zip', root_dir): the file written
make_archive(cwd, base_name) == abspath(cwd, base_name) \o ZIP_EXT

---------------------------------------------------------------------------
(* build, lines 201-298. *)

\* package paths that may be given, and working directories
PKG_ABSOLUTE == <<"/","U","s","e","r","s","/","x","/","B","o","o","t","C","a","m","p","E","S","D",".","p","k","g">>
PKG_RELATIVE == <<"d","l","/","B","o","o","t","C","a","m","p","E","S","D",".","p","k","g">>
PKG_DOT      == <<".","/","B","o","o","t","C","a","m","p","E","S","D",".","p","k","g">>
PKG_BARE     == <<"B","o","o","t","C","a","m","p","E","S","D",".","p","k","g">>
PKG_IN_ROOT  == <<"/","B","o","o","t","C","a","m","p","E","S","D",".","p","k","g">>

PackagePaths == {PKG_ABSOLUTE, PKG_RELATIVE, PKG_DOT, PKG_BARE, PKG_IN_ROOT}

USERS_X == <<"/","U","s","e","r","s","/","x">>
ROOT    == <<"/">>

WorkingDirs == {USERS_X, ROOT}

\* the texts MsiInfo/ProductVersion may hold; an empty element's is None
V_6_1_6259 == <<"6",".","1",".","6","2","5","9">>
V_5_1_5621 == <<"5",".","1",".","5","6","2","1">>

ProductVersions == {V_6_1_6259, V_5_1_5621, NoneArg}

\* '{}'.format(value)
format(value) == IF value = NoneArg THEN <<"N","o","n","e">> ELSE value

\* lines 271-277: the archive's base name
archive_name(package, version) ==
    dirname(package) \o <<"/","B","o","o","t","C","a","m","p"," ">> \o format(version)

\* the steps of build, in the order of lines 204-298
PIPELINE == <<"check_volume", "check_package", "mkdtemp", "pkgutil", "tar",
              "attach", "version", "archive", "detach", "rmtree", "report">>

InitBuild ==
    /\ IdleModels /\ IdleFind
    /\ b_pc = "check_volume"
    /\ bootcamp_package \in PackagePaths
    /\ b_cwd \in WorkingDirs
    /\ b_is_file \in BOOLEAN
    /\ b_mounted0 \in BOOLEAN
    /\ b_mounted = b_mounted0
    /\ b_tmpdir = FALSE
    /\ bootcamp_version = <<>> /\ bootcamp_archive = <<>>
    /\ b_archive_file = NoneArg
    /\ b_steps = <<>> /\ b_failed_at = "none"
    /\ b_out = <<>> /\ b_outcome = "running" /\ b_exit = "none"

\* the process ends
BuildEnds(outcome) ==
    /\ b_pc' = "done"
    /\ b_outcome' = outcome
    /\ b_exit' = exit_status(outcome)

\* the step succeeds and build goes on
BuildGoesOn(step, next) ==
    /\ b_steps' = Append(b_steps, step)
    /\ b_pc' = next
    /\ UNCHANGED <<b_failed_at, b_outcome, b_exit>>

\* the step raises, which nothing catches
BuildRaises(step) ==
    /\ b_steps' = Append(b_steps, step)
    /\ b_failed_at' = step
    /\ BuildEnds("exception")

\* the mounted volume is not looked for
BuildCheckVolumeSkipped ==
    /\ b_pc = "check_volume"
    /\ BuildGoesOn("check_volume", "check_package")
    /\ UNCHANGED <<bootcamp_package, b_cwd, b_is_file, b_mounted0, b_mounted,
                   b_tmpdir, bootcamp_version, bootcamp_archive,
                   b_archive_file, b_out>>
    /\ UNCHANGED <<modelsVars, findVars>>

\* lines 204-213: the Boot Camp volume must not be mounted
BuildCheckVolume ==
    /\ b_pc = "check_volume"
    /\ IF b_mounted
       THEN /\ b_out' = b_out \o <<Msg("volume_mounted", <<>>), Msg("eject", <<>>)>>
            /\ b_steps' = Append(b_steps, "check_volume")
            /\ BuildEnds("exit")
            /\ UNCHANGED b_failed_at
       ELSE /\ BuildGoesOn("check_volume", "check_package")
            /\ UNCHANGED b_out
    /\ UNCHANGED <<bootcamp_package, b_cwd, b_is_file, b_mounted0, b_mounted,
                   b_tmpdir, bootcamp_version, bootcamp_archive, b_archive_file>>
    /\ UNCHANGED <<modelsVars, findVars>>

\* the package file is not looked for
BuildCheckPackageSkipped ==
    /\ b_pc = "check_package"
    /\ BuildGoesOn("check_package", "mkdtemp")
    /\ UNCHANGED <<bootcamp_package, b_cwd, b_is_file, b_mounted0, b_mounted,
                   b_tmpdir, bootcamp_version, bootcamp_archive,
                   b_archive_file, b_out>>
    /\ UNCHANGED <<modelsVars, findVars>>

\* lines 215-224: the package must be a file
BuildCheckPackage ==
    /\ b_pc = "check_package"
    /\ IF ~b_is_file
       THEN /\ b_out' = Append(b_out, Msg("no_file", bootcamp_package))
            /\ b_steps' = Append(b_steps, "check_package")
            /\ BuildEnds("exit")
            /\ UNCHANGED b_failed_at
       ELSE /\ BuildGoesOn("check_package", "mkdtemp")
            /\ UNCHANGED b_out
    /\ UNCHANGED <<bootcamp_package, b_cwd, b_is_file, b_mounted0, b_mounted,
                   b_tmpdir, bootcamp_version, bootcamp_archive, b_archive_file>>
    /\ UNCHANGED <<modelsVars, findVars>>

\* lines 226-233: the temporary directory is made
BuildMakeTempDir ==
    /\ b_pc = "mkdtemp"
    /\ \/ /\ b_tmpdir' = TRUE
          /\ b_out' = Append(b_out, Msg("tmpdir", <<>>))
          /\ BuildGoesOn("mkdtemp", "pkgutil")
       \/ /\ BuildRaises("mkdtemp")
          /\ UNCHANGED <<b_tmpdir, b_out>>
    /\ UNCHANGED <<bootcamp_package, b_cwd, b_is_file, b_mounted0, b_mounted,
                   bootcamp_version, bootcamp_archive, b_archive_file>>
    /\ UNCHANGED <<modelsVars, findVars>>

\* a failed pkgutil is run again
BuildExpandRetried ==
    /\ b_pc = "pkgutil"
    /\ b_out' = Append(b_out, Msg("expanding", <<>>))
    /\ \/ BuildGoesOn("pkgutil", "tar")
       \/ BuildGoesOn("pkgutil", "pkgutil")
    /\ UNCHANGED <<bootcamp_package, b_cwd, b_is_file, b_mounted0, b_mounted,
                   b_tmpdir, bootcamp_version, bootcamp_archive, b_archive_file>>
    /\ UNCHANGED <<modelsVars, findVars>>

\* lines 235-241: pkgutil expands the package
BuildExpand ==
    /\ b_pc = "pkgutil"
    /\ b_out' = Append(b_out, Msg("expanding", <<>>))
    /\ \/ BuildGoesOn("pkgutil", "tar")
       \/ BuildRaises("pkgutil")
    /\ UNCHANGED <<bootcamp_package, b_cwd, b_is_file, b_mounted0, b_mounted,
                   b_tmpdir, bootcamp_version, bootcamp_archive, b_archive_file>>
    /\ UNCHANGED <<modelsVars, findVars>>

\* lines 243-248: tar extracts the payload
BuildExtract ==
    /\ b_pc = "tar"
    /\ b_out' = Append(b_out, Msg("extracting", <<>>))
    /\ \/ BuildGoesOn("tar", "attach")
       \/ BuildRaises("tar")
    /\ UNCHANGED <<bootcamp_package, b_cwd, b_is_file, b_mounted0, b_mounted,
                   b_tmpdir, bootcamp_version, bootcamp_archive, b_archive_file>>
    /\ UNCHANGED <<modelsVars, findVars>>

\* lines 250-256: hdiutil attaches the disk image
BuildAttach ==
    /\ b_pc = "attach"
    /\ b_out' = Append(b_out, Msg("attaching", <<>>))
    /\ \/ /\ b_mounted' = TRUE
          /\ BuildGoesOn("attach", "version")
       \/ /\ BuildRaises("attach")
          /\ UNCHANGED b_mounted
    /\ UNCHANGED <<bootcamp_package, b_cwd, b_is_file, b_mounted0, b_tmpdir,
                   bootcamp_version, bootcamp_archive, b_archive_file>>
    /\ UNCHANGED <<modelsVars, findVars>>

\* a failure to read the version releases what the run holds
BuildReadVersionReleasing ==
    /\ b_pc = "version"
    /\ \/ \E text \in ProductVersions :
            /\ bootcamp_version' = text
            /\ b_out' = Append(b_out, Msg("version", format(text)))
            /\ BuildGoesOn("version", "archive")
            /\ UNCHANGED <<b_mounted, b_tmpdir>>
       \/ /\ BuildRaises("version")
          /\ b_mounted' = FALSE /\ b_tmpdir' = FALSE
          /\ UNCHANGED <<bootcamp_version, b_out>>
    /\ UNCHANGED <<bootcamp_package, b_cwd, b_is_file, b_mounted0,
                   bootcamp_archive, b_archive_file>>
    /\ UNCHANGED <<modelsVars, findVars>>

\* lines 258-269: the version is read from the volume's BootCamp.xml
BuildReadVersion ==
    /\ b_pc = "version"
    /\ \/ \E text \in ProductVersions :
            /\ bootcamp_version' = text
            /\ b_out' = Append(b_out, Msg("version", format(text)))
            /\ BuildGoesOn("version", "archive")
       \/ /\ BuildRaises("version")
          /\ UNCHANGED <<bootcamp_version, b_out>>
    /\ UNCHANGED <<bootcamp_package, b_cwd, b_is_file, b_mounted0, b_mounted,
                   b_tmpdir, bootcamp_archive, b_archive_file>>
    /\ UNCHANGED <<modelsVars, findVars>>

\* lines 271-284: the archive is named and written
BuildArchive ==
    /\ b_pc = "archive"
    /\ bootcamp_archive' = archive_name(bootcamp_package, bootcamp_version)
    /\ b_out' = Append(b_out, Msg("archiving", <<>>))
    /\ \/ /\ b_archive_file' = make_archive(b_cwd, bootcamp_archive')
          /\ BuildGoesOn("archive", "detach")
       \/ /\ BuildRaises("archive")
          /\ UNCHANGED b_archive_file
    /\ UNCHANGED <<bootcamp_package, b_cwd, b_is_file, b_mounted0, b_mounted,
                   b_tmpdir, bootcamp_version>>
    /\ UNCHANGED <<modelsVars, findVars>>

\* lines 286-287: hdiutil detaches the volume
BuildDetach ==
    /\ b_pc = "detach"
    /\ b_out' = Append(b_out, Msg("detaching", <<>>))
    /\ \/ /\ b_mounted' = FALSE
          /\ BuildGoesOn("detach", "rmtree")
       \/ /\ BuildRaises("detach")
          /\ UNCHANGED b_mounted
    /\ UNCHANGED <<bootcamp_package, b_cwd, b_is_file, b_mounted0, b_tmpdir,
                   bootcamp_version, bootcamp_archive, b_archive_file>>
    /\ UNCHANGED <<modelsVars, findVars>>

\* lines 289-290: the temporary directory is deleted
BuildCleanUp ==
    /\ b_pc = "rmtree"
    /\ b_out' = Append(b_out, Msg("cleaning", <<>>))
    /\ \/ /\ b_tmpdir' = FALSE
          /\ BuildGoesOn("rmtree", "report")
       \/ /\ BuildRaises("rmtree")
          /\ UNCHANGED b_tmpdir
    /\ UNCHANGED <<bootcamp_package, b_cwd, b_is_file, b_mounted0, b_mounted,
                   bootcamp_version, bootcamp_archive, b_archive_file>>
    /\ UNCHANGED <<modelsVars, findVars>>

\* lines 292-298: the archive's location is reported and build returns
BuildReport ==
    /\ b_pc = "report"
    /\ b_out' = b_out \o <<Msg("success", <<>>),
                           Msg("location", bootcamp_archive \o ZIP_EXT)>>
    /\ b_steps' = Append(b_steps, "report")
    /\ BuildEnds("returned")
    /\ UNCHANGED <<bootcamp_package, b_cwd, b_is_file, b_mounted0, b_mounted,
                   b_tmpdir, bootcamp_version, bootcamp_archive,
                   b_archive_file, b_failed_at>>
    /\ UNCHANGED <<modelsVars, findVars>>

\* lines 341-342: the user interrupts the step build is at
BuildInterrupted ==
    /\ b_pc \in {"mkdtemp", "pkgutil", "tar", "attach", "version", "archive",
                 "detach", "rmtree"}
    /\ b_out' = Append(b_out, Msg("cancelled", <<>>))
    /\ BuildEnds("interrupted")
    /\ UNCHANGED <<bootcamp_package, b_cwd, b_is_file, b_mounted0, b_mounted,
                   b_tmpdir, bootcamp_version, bootcamp_archive,
                   b_archive_file, b_steps, b_failed_at>>
    /\ UNCHANGED <<modelsVars, findVars>>

NextBuild ==
    \/ BuildCheckVolume
    \/ BuildCheckPackage
    \/ BuildMakeTempDir
    \/ BuildExpand
    \/ BuildExtract
    \/ BuildAttach
    \/ BuildReadVersion
    \/ BuildArchive
    \/ BuildDetach
    \/ BuildCleanUp
    \/ BuildReport
    \/ BuildInterrupted

SpecBuild == InitBuild /\ [][NextBuild]_vars

---------------------------------------------------------------------------
(* Properties of find. *)

\* the URL is some text followed by BootCampESD.pkg
HasBootCampSuffix(url) ==
    \E n \in 0..Len(url) : url = SubSeq(url, 1, n) \o BOOTCAMP_SUFFIX

\* the distribution document fetched for visit k lists the model
ListsModel(k) ==
    \E n \in 1..Len(f_fetched) :
        LET e == f_fetched[n]
            got == SupportedModels[e.response]
        IN  /\ e.visit = k
            /\ e.distribution = Visits(catalog, 1)[k][1]
            /\ got.exc = "none"
            /\ \E l \in 1..Len(got.val) : got.val[l] = model

\* the visits made so far whose package qualifies, in iteration order
QualifyingVisits ==
    LET Qualifies(k) ==
            /\ HasBootCampSuffix(PackageUrlAt(catalog, Visits(catalog, 1)[k]))
            /\ ListsModel(k)
    IN  SelectSeq([k \in 1..(f_k - 1) |-> k], Qualifies)

\* C1: the collected list holds, in iteration order, one entry for each
\* package examined whose URL ends with BootCampESD.pkg and whose product's
\* English distribution document lists the model, and nothing else.
C1_CollectedAreTheQualifying ==
    package_urls = [n \in 1..Len(QualifyingVisits) |->
                        PackageUrlAt(catalog, Visits(catalog, 1)[QualifyingVisits[n]])]

\* two products each hold a qualifying package: both are collected, in the
\* order of the products
C1_Witness ==
    /\ f_pc = "done" /\ f_outcome = "returned"
    /\ catalog = <<<<URL_A>>, <<URL_BARE>>>>
    /\ package_urls = <<URL_A, URL_BARE>>

\* the report lines among the lines printed
ReportLines ==
    LET IsReport(m) == m.kind \in {"found", "ambiguous", "item", "none"}
    IN  SelectSeq(f_out, IsReport)

\* C2: once the whole catalog was iterated, one URL is reported as found
\* with status 0, two or more as ambiguous, all listed, with status 0, and
\* none as a failure with status 1 and no URL; exactly one report is made.
C2_ReportFollowsCount ==
    (f_pc = "done" /\ f_outcome \notin {"exception", "interrupted"}) =>
        LET n == Len(package_urls) IN
        /\ f_k = Len(Visits(catalog, 1)) + 1
        /\ n = 1 => /\ ReportLines = <<Msg("found", package_urls[1])>>
                    /\ f_outcome = "returned" /\ f_exit = "0"
        /\ n >= 2 => /\ ReportLines = <<Msg("ambiguous", <<>>)>>
                            \o [i \in 1..n |-> Msg("item", package_urls[i])]
                     /\ f_outcome = "returned" /\ f_exit = "0"
        /\ n = 0 => /\ ReportLines = <<Msg("none", <<>>)>>
                    /\ f_outcome = "exit" /\ f_exit = "1"
        /\ Cardinality({i \in 1..Len(f_out) :
                f_out[i].kind \in {"found", "ambiguous", "none"}}) = 1

C2_Witness ==
    /\ f_pc = "done" /\ f_outcome = "returned" /\ f_exit = "0"
    /\ Len(package_urls) = 2
    /\ Len(ReportLines) = 3

\* the document's script (its second) has no line with 'var models'
HasNoModelsLine(response) ==
    /\ Len(Document(response)) >= 2
    /\ ~contains(Document(response)[2], VAR_MODELS)

\* C9: a distribution document whose script has no 'var models' line gives
\* the empty list: its package is not collected, nothing is raised and the
\* iteration goes on with the next package.
C9_NoModelsLineIsNoModels ==
    /\ Len(f_from) = Len(package_urls)
    /\ \A n \in 1..Len(f_fetched) :
        LET e == f_fetched[n] IN
        HasNoModelsLine(e.response) =>
            /\ SupportedModels[e.response] = Returned(<<>>)
            /\ n = Len(f_fetched) => supported_models = Returned(<<>>)
            /\ e.visit \notin Elems(f_from)
            /\ f_k > e.visit
            /\ (f_outcome = "exception" => n < Len(f_fetched))

\* after a document without the line, a later package was still collected
C9_Witness ==
    /\ f_pc = "done" /\ f_outcome = "returned"
    /\ Len(f_fetched) = 2
    /\ f_fetched[1].response = "no_models_line"
    /\ f_from = <<f_fetched[2].visit>>

\* the last fetch raised
LastFetchRaised ==
    /\ f_fetched # <<>>
    /\ SupportedModels[f_fetched[Len(f_fetched)].response].exc # "none"

\* C10: no package URL is printed before the whole catalog was examined, so
\* a run that a fetch or a parse failure ends has reported none; and a
\* distribution document is fetched once for each package whose URL ends
\* with BootCampESD.pkg, its own product's, and for no other package.
C10_AllOrNothing ==
    /\ (\E i \in 1..Len(f_out) : f_out[i].kind \in {"found", "item"}) =>
            /\ f_pc = "done" /\ f_outcome = "returned"
            /\ f_k = Len(Visits(catalog, 1)) + 1
    /\ f_outcome = "exception" => f_exit = "1"
    /\ LET upto == IF LastFetchRaised THEN f_k ELSE f_k - 1
           IsCandidate(k) ==
               HasBootCampSuffix(PackageUrlAt(catalog, Visits(catalog, 1)[k]))
       IN  /\ [n \in 1..Len(f_fetched) |-> f_fetched[n].visit]
                = SelectSeq([k \in 1..upto |-> k], IsCandidate)
           /\ \A n \in 1..Len(f_fetched) :
                f_fetched[n].distribution
                    = Visits(catalog, 1)[f_fetched[n].visit][1]

\* a package had matched, another product's document then failed to parse
C10_Witness ==
    /\ f_pc = "done" /\ f_outcome = "exception"
    /\ Len(package_urls) = 1
    /\ Len(f_fetched) = 2
    /\ f_fetched[2].distribution = 2
    /\ \A i \in 1..Len(f_out) : f_out[i].kind \notin {"found", "item"}

---------------------------------------------------------------------------
(* Properties of build. *)

Printed(kind) == \E i \in 1..Len(b_out) : b_out[i].kind = kind

\* C3: with /Volumes/Boot Camp present at the start, build exits with
\* status 1 at the first check, whatever the package path: no temporary
\* directory, no tool, no archive, and the package is not looked at.
C3_MountedVolumeStopsBuild ==
    b_mounted0 =>
        /\ b_pc \in {"check_volume", "done"}
        /\ ~b_tmpdir /\ b_archive_file = NoneArg
        /\ b_pc = "done" =>
            /\ b_steps = <<"check_volume">>
            /\ b_outcome = "exit" /\ b_exit = "1"
            /\ Printed("volume_mounted") /\ ~Printed("no_file")

\* the volume is mounted and the package path names no file
C3_Witness ==
    /\ b_mounted0 /\ ~b_is_file
    /\ b_pc = "done" /\ b_exit = "1"
    /\ Printed("volume_mounted")

\* C4: with no volume mounted and a package path that names no file, build
\* exits with status 1 at the second check: no temporary directory is made,
\* no tool is run and no volume is mounted.
C4_MissingPackageStopsBuild ==
    (~b_mounted0 /\ ~b_is_file) =>
        /\ b_pc \in {"check_volume", "check_package", "done"}
        /\ ~b_tmpdir /\ ~b_mounted /\ b_archive_file = NoneArg
        /\ b_pc = "done" =>
            /\ b_steps = <<"check_volume", "check_package">>
            /\ b_outcome = "exit" /\ b_exit = "1"
            /\ Printed("no_file")

C4_Witness ==
    /\ ~b_mounted0 /\ ~b_is_file
    /\ b_pc = "done" /\ b_exit = "1"
    /\ Printed("no_file") /\ ~b_tmpdir

\* C5: the steps run in the fixed order, each at most once; a step runs
\* only if the steps before it succeeded; the step that fails ends the
\* process with a non-zero status; the archive is written while the volume
\* is attached, the volume detached before the temporary directory is
\* deleted, and the location reported after every other step succeeded.
C5_StrictPipeline ==
    /\ b_steps = SubSeq(PIPELINE, 1, Len(b_steps))
    /\ b_pc # "done" => /\ Len(b_steps) < Len(PIPELINE)
                        /\ b_pc = PIPELINE[Len(b_steps) + 1]
                        /\ b_failed_at = "none"
    /\ b_failed_at # "none" =>
            /\ b_pc = "done" /\ b_failed_at = b_steps[Len(b_steps)]
            /\ b_outcome = "exception" /\ b_exit = "1"
    /\ b_outcome = "exit" => b_exit = "1"
    /\ (b_steps # <<>> /\ b_steps[Len(b_steps)] = "archive") =>
            /\ b_mounted
            /\ b_archive_file # NoneArg <=> b_failed_at = "none"
    /\ b_archive_file # NoneArg => Len(b_steps) >= 8
    /\ b_pc = "rmtree" => ~b_mounted /\ b_tmpdir
    /\ Printed("location") =>
            /\ b_steps = PIPELINE /\ b_failed_at = "none"
            /\ b_outcome = "returned" /\ b_exit = "0"
            /\ b_archive_file # NoneArg /\ ~b_mounted /\ ~b_tmpdir

\* a whole run: every step ran once and the location was reported
C5_Witness ==
    /\ b_pc = "done" /\ b_steps = PIPELINE
    /\ Printed("location")

\* C6: a run that fails between the making and the deleting of the
\* temporary directory ends with the directory present, one that fails
\* between attach and detach ends with the volume mounted; a run ends with
\* either left behind only if it failed or was interrupted.
C6_ResourcesLeftOnFailure ==
    b_pc = "done" =>
        /\ b_failed_at \in {"pkgutil", "tar", "attach", "version", "archive",
                            "detach"} => b_tmpdir
        /\ b_failed_at \in {"version", "archive", "detach"} => b_mounted
        /\ (b_tmpdir \/ b_mounted) => b_outcome # "returned"
        /\ b_outcome = "returned" => b_failed_at = "none"

C6_Witness ==
    /\ b_pc = "done" /\ b_failed_at = "archive"
    /\ b_tmpdir /\ b_mounted /\ ~b_mounted0
    /\ b_exit = "1"

\* the names on the way to a file, from the root: the path is taken from
\* the working directory unless it starts with a slash
Components(cwd, path) ==
    LET whole == IF path # <<>> /\ path[1] = "/" THEN path
                 ELSE cwd \o <<"/">> \o path
        IsName(c) == c \notin {<<>>, <<".">>}
    IN  SelectSeq(split(whole, "/"), IsName)

ContainingDir(cwd, path) ==
    LET c == Components(cwd, path) IN SubSeq(c, 1, Len(c) - 1)

FileName(cwd, path) ==
    LET c == Components(cwd, path) IN c[Len(c)]

\* C7: for a package path that names a file and a version string read, the
\* archive written is in the directory that contains the package, is named
\* "BootCamp <version>.zip", and is the file the final message names.
\* (build does not keep this for a bare file name given outside the root
\* directory: dirname is empty there, and the archive goes to the root.)
C7_ArchiveBesidePackage ==
    (b_archive_file # NoneArg /\ bootcamp_version # NoneArg) =>
        /\ ContainingDir(b_cwd, b_archive_file)
                = ContainingDir(b_cwd, bootcamp_package)
        /\ FileName(b_cwd, b_archive_file)
                = <<"B","o","o","t","C","a","m","p"," ">> \o bootcamp_version
                    \o <<".","z","i","p">>
        /\ \A i \in 1..Len(b_out) :
                b_out[i].kind = "location" =>
                    Components(b_cwd, b_out[i].text)
                        = Components(b_cwd, b_archive_file)

---------------------------------------------------------------------------
(* Properties of the model-list transformation. *)

\* C8: a first 'var models' line of the form
\* var models = ['m1',...,'mn',]; gives the list of m1 ... mn, in order; the
\* line var models = ['MacBookPro9,1','MacBookPro9,2',]; gives the two
\* models, commas kept; and it is the first line with 'var models' that is
\* taken, whatever follows it.
C8_ModelsLineGivesItsList ==
    m_pc = "done" =>
        /\ (m_form = "canonical" /\ m_pre # "earlier_mention") =>
                m_result = Returned(m_ids)
        /\ m_script = <<"v","a","r"," ","m","o","d","e","l","s"," ","="," ","[",
                        "'","M","a","c","B","o","o","k","P","r","o","9",",","1","'",",",
                        "'","M","a","c","B","o","o","k","P","r","o","9",",","2","'",",",
                        "]",";">> =>
                m_result = Returned(<<MacBookPro9_1, MacBookPro9_2>>)
        /\ m_pre = "earlier_mention" => m_result = Raised("ValueError")

C8_Witness ==
    /\ m_pc = "done" /\ m_form = "canonical" /\ m_pre = "other_lines"
    /\ m_ids = <<MacBookPro9_1, MacBookPro9_2>>
    /\ m_result.exc = "none"
    /\ Len(m_result.val) = 2 /\ m_result.val[1][12] = ","

===========================================================================
